---- MODULE Spec2Model ----
(***************************************************************************)
(* Model of docs/.vitepress/config.mts: the VitePress site configuration   *)
(* of F2.  The module constant `version`, the two navigation builders      *)
(* cn_nav() and en_nav(), and the argument of defineConfig.                *)
(*                                                                         *)
(* Every array literal evaluated by a builder allocates a new array on the *)
(* heap; the caller holds a reference to it and may mutate it (the return  *)
(* type DefaultTheme.NavItem[] is a mutable array).                        *)
(*                                                                         *)
(* Strings that are only compared for equality are TLA+ strings; non-ASCII *)
(* characters are written as their \uXXXX escapes.  A link, which is       *)
(* tested for a prefix, is the sequence of its '/'-separated tokens, the   *)
(* separators included: '/en/install' is <<"/", "en", "/", "install">>.    *)
(***************************************************************************)
EXTENDS Naturals, Sequences, FiniteSets

VARIABLES
    version,   \* the module constant `version` (config.mts line 9)
    heap,      \* the arrays allocated by the builders, by reference
    calls,     \* history: one record per completed builder call
    configs,   \* history: one record per evaluation of the defineConfig argument
    nmut       \* history: number of caller mutations so far

vars == <<version, heap, calls, configs, nmut>>

\* Bounds of the exploration.
MaxCalls == 4
MaxMutations == 2

(***************************************************************************)
(* Links                                                                   *)
(***************************************************************************)
GithubBlob == <<"https:", "/", "/", "github.com", "/", "Johnserf-Seed", "/", "f2", "/", "blob", "/", "main", "/">>

ChangelogLink == GithubBlob \o <<"CHANGELOG.md">>

ContributingLink == GithubBlob \o <<".github", "/", "contributing.md">>

\* String.prototype.startsWith on tokenised links
StartsWith(s, p) == Len(s) >= Len(p) /\ SubSeq(s, 1, Len(p)) = p

(***************************************************************************)
(* Heap                                                                    *)
(***************************************************************************)
\* Evaluation of an array literal at allocation site `site`: a new array.
Alloc(h, site, val) ==
    [ref |-> Len(h) + 1, heap |-> Append(h, [site |-> site, val |-> val])]

\* Variant of cn_nav_literal: the dropdown text is the commented-out
\* alternative pkg.version (line 115), the version of the vitepress package.
cn_nav_literal_pkg ==
    << [text |-> "\\u6307\\u5357",
        link |-> <<"/", "guide", "/", "what-is-f2">>,
        activeMatch |-> "/guide/"],
       [text |-> "\\u53c2\\u8003",
        link |-> <<"/", "reference", "/", "site-config">>,
        activeMatch |-> "/reference/"],
       [text |-> "1.0.0-rc.31",
        items |-> << [text |-> "\\u66f4\\u65b0\\u65e5\\u5fd7", link |-> ChangelogLink],
                     [text |-> "\\u8d21\\u732e\\u6307\\u5357", link |-> ContributingLink] >>] >>

\* The value of `text: version` is read when the literal is evaluated.
cn_nav_literal ==
    << [text |-> "\\u6307\\u5357",
        link |-> <<"/", "guide", "/", "what-is-f2">>,
        activeMatch |-> "/guide/"],
       [text |-> "\\u53c2\\u8003",
        link |-> <<"/", "reference", "/", "site-config">>,
        activeMatch |-> "/reference/"],
       [text |-> version,
        items |-> << [text |-> "\\u66f4\\u65b0\\u65e5\\u5fd7", link |-> ChangelogLink],
                     [text |-> "\\u8d21\\u732e\\u6307\\u5357", link |-> ContributingLink] >>] >>

\* Variant of en_nav_literal: the guide entry lacks its activeMatch.
en_nav_literal_noactive ==
    << [text |-> "guide",
        link |-> <<"/", "en", "/", "guide", "/", "what-is-f2">>],
       [text |-> "reference",
        link |-> <<"/", "en", "/", "reference", "/", "site-config">>,
        activeMatch |-> "/reference/"],
       [text |-> version,
        items |-> << [text |-> "Changelog", link |-> ChangelogLink],
                     [text |-> "Contributing", link |-> ContributingLink] >>] >>

en_nav_literal ==
    << [text |-> "guide",
        link |-> <<"/", "en", "/", "guide", "/", "what-is-f2">>,
        activeMatch |-> "/guide/"],
       [text |-> "reference",
        link |-> <<"/", "en", "/", "reference", "/", "site-config">>,
        activeMatch |-> "/reference/"],
       [text |-> version,
        items |-> << [text |-> "Changelog", link |-> ChangelogLink],
                     [text |-> "Contributing", link |-> ContributingLink] >>] >>

\* Variant of cn_nav: the array literal is hoisted to module level, so every
\* call after the first returns the array the first call allocated.
cn_nav_hoisted(h) ==
    IF \E i \in DOMAIN h : h[i].site = "cn_nav"
    THEN [ref |-> CHOOSE i \in DOMAIN h : h[i].site = "cn_nav", heap |-> h]
    ELSE Alloc(h, "cn_nav", cn_nav_literal)

cn_nav(h) == Alloc(h, "cn_nav", cn_nav_literal)

\* Variant of en_nav: as cn_nav_hoisted.
en_nav_hoisted(h) ==
    IF \E i \in DOMAIN h : h[i].site = "en_nav"
    THEN [ref |-> CHOOSE i \in DOMAIN h : h[i].site = "en_nav", heap |-> h]
    ELSE Alloc(h, "en_nav", en_nav_literal)

en_nav(h) == Alloc(h, "en_nav", en_nav_literal)

(***************************************************************************)
(* Object literals: a sequence of <<key, value>> entries in source order.  *)
(* The object built from it maps each key to the value of its last entry.  *)
(***************************************************************************)
ObjectOf(entries) ==
    [k \in {entries[i][1] : i \in DOMAIN entries} |->
        entries[CHOOSE i \in DOMAIN entries :
                    /\ entries[i][1] = k
                    /\ \A j \in DOMAIN entries : entries[j][1] = k => j <= i][2]]

\* Variant of root_sidebar: the second entry repeats the key '/'.
root_sidebar_dup ==
    << <<"/", << [text |-> "\\u5feb\\u901f\\u5165\\u95e8",
                  items |-> << [text |-> "\\u5b89\\u88c5", link |-> <<"/", "install">>],
                               [text |-> "\\u5feb\\u901f\\u4f7f\\u7528", link |-> <<"/", "quick-start">>],
                               [text |-> "\\u8fdb\\u9636\\u7528\\u6cd5", link |-> <<"/", "advance-guide">>] >>] >> >>,
       <<"/", << [text |-> "\\u6307\\u5357",
                  items |-> << [text |-> "\\u4f7f\\u7528\\u793a\\u4f8b", link |-> <<"/", "api-examples">>] >>] >> >> >>

root_sidebar ==
    << <<"/", << [text |-> "\\u5feb\\u901f\\u5165\\u95e8",
                  items |-> << [text |-> "\\u5b89\\u88c5", link |-> <<"/", "install">>],
                               [text |-> "\\u5feb\\u901f\\u4f7f\\u7528", link |-> <<"/", "quick-start">>],
                               [text |-> "\\u8fdb\\u9636\\u7528\\u6cd5", link |-> <<"/", "advance-guide">>] >>] >> >>,
       <<"/guide/", << [text |-> "\\u6307\\u5357",
                        items |-> << [text |-> "\\u4f7f\\u7528\\u793a\\u4f8b", link |-> <<"/", "api-examples">>] >>] >> >> >>

\* Variant of en_sidebar: the 'Advance Guide' page is missing from the
\* English quick-start group.
en_sidebar_short ==
    << <<"/", << [text |-> "Quick Start",
                  items |-> << [text |-> "Install", link |-> <<"/", "en", "/", "install">>],
                               [text |-> "Quick Start", link |-> <<"/", "en", "/", "quick-start">>] >>] >> >>,
       <<"/guide/", << [text |-> "Guide",
                        items |-> << [text |-> "API Examples", link |-> <<"/", "api-examples">>] >>] >> >> >>

en_sidebar ==
    << <<"/", << [text |-> "Quick Start",
                  items |-> << [text |-> "Install", link |-> <<"/", "en", "/", "install">>],
                               [text |-> "Quick Start", link |-> <<"/", "en", "/", "quick-start">>],
                               [text |-> "Advance Guide", link |-> <<"/", "en", "/", "advance-guide">>] >>] >> >>,
       <<"/guide/", << [text |-> "Guide",
                        items |-> << [text |-> "API Examples", link |-> <<"/", "api-examples">>] >>] >> >> >>

\* Variant of locales: the two builders' results are attached to the wrong
\* locales.
locales_swapped(cnNav, enNav) ==
    << <<"root", [label |-> "\\u7b80\\u4f53\\u4e2d\\u6587",
                  lang |-> "zh",
                  themeConfig |-> [nav |-> enNav, sidebar |-> ObjectOf(root_sidebar)]]>>,
       <<"en", [label |-> "English",
                lang |-> "en",
                themeConfig |-> [nav |-> cnNav, sidebar |-> ObjectOf(en_sidebar)]]>> >>

\* The entries of the `locales` literal; cnNav and enNav are the arrays
\* returned by cn_nav() and en_nav().
locales(cnNav, enNav) ==
    << <<"root", [label |-> "\\u7b80\\u4f53\\u4e2d\\u6587",
                  lang |-> "zh",
                  themeConfig |-> [nav |-> cnNav, sidebar |-> ObjectOf(root_sidebar)]]>>,
       <<"en", [label |-> "English",
                lang |-> "en",
                themeConfig |-> [nav |-> enNav, sidebar |-> ObjectOf(en_sidebar)]]>> >>

\* Variant of themeConfig: a search API key has been filled in.
themeConfig_key ==
    [logo |-> [src |-> <<"/", "f2-logo.ico">>, width |-> 256, height |-> 256],
     socialLinks |-> << [icon |-> "github", link |-> "https://github.com/Johnserf-Seed/f2"],
                        [icon |-> "discord", link |-> "https://discord.gg/3PhtPmgHf8"] >>,
     algolia |-> [appId |-> "", apiKey |-> "0123456789abcdef", indexName |-> "f2"],
     footer |-> [message |-> "Released under the Apache-2.0 license.",
                 copyright |-> "Copyright \\u00a9 2023-present Johnserf Seed"],
     editLink |-> [pattern |-> "https://github.com/Johnserf-Seed/f2/edit/main/docs/:path",
                   text |-> "Edit this page on GitHub"]]

themeConfig ==
    [logo |-> [src |-> <<"/", "f2-logo.ico">>, width |-> 256, height |-> 256],
     socialLinks |-> << [icon |-> "github", link |-> "https://github.com/Johnserf-Seed/f2"],
                        [icon |-> "discord", link |-> "https://discord.gg/3PhtPmgHf8"] >>,
     algolia |-> [appId |-> "", apiKey |-> "", indexName |-> "f2"],
     footer |-> [message |-> "Released under the Apache-2.0 license.",
                 copyright |-> "Copyright \\u00a9 2023-present Johnserf Seed"],
     editLink |-> [pattern |-> "https://github.com/Johnserf-Seed/f2/edit/main/docs/:path",
                   text |-> "Edit this page on GitHub"]]

\* The argument of defineConfig.
SiteConfig(cnNav, enNav) ==
    [title |-> "F2",
     description |-> "Fast 2 Every",
     base |-> "/f2/",
     lastUpdated |-> TRUE,
     head |-> << <<"link", [rel |-> "icon", type |-> "image/svg+xml", href |-> <<"/", "f2-logo.ico">>]>> >>,
     themeConfig |-> themeConfig,
     locales |-> ObjectOf(locales(cnNav, enNav))]

(***************************************************************************)
(* Operations                                                              *)
(***************************************************************************)
Init ==
    /\ version = "v0.0.1-pw.1"
    /\ heap = << >>
    /\ calls = << >>
    /\ configs = << >>
    /\ nmut = 0

CallRecord(fn, r) ==
    [fn |-> fn, ref |-> r.ref, value |-> r.heap[r.ref].val, muts |-> nmut]

\* A call of cn_nav()
CallCnNav ==
    /\ Len(calls) < MaxCalls
    /\ LET r == cn_nav(heap) IN
        /\ heap' = r.heap
        /\ calls' = Append(calls, CallRecord("cn_nav", r))
    /\ UNCHANGED <<version, configs, nmut>>

\* A call of en_nav()
CallEnNav ==
    /\ Len(calls) < MaxCalls
    /\ LET r == en_nav(heap) IN
        /\ heap' = r.heap
        /\ calls' = Append(calls, CallRecord("en_nav", r))
    /\ UNCHANGED <<version, configs, nmut>>

\* Evaluation of the defineConfig argument: the properties of the literal
\* are evaluated in source order, so cn_nav() (line 48) runs before
\* en_nav() (line 76).  The record kept in `configs` is the value of the
\* finished configuration.
BuildConfig ==
    /\ Len(calls) + 2 <= MaxCalls
    /\ LET r1 == cn_nav(heap)
           r2 == en_nav(r1.heap)
       IN
        /\ heap' = r2.heap
        /\ calls' = calls \o << CallRecord("cn_nav", r1), CallRecord("en_nav", r2) >>
        /\ configs' = Append(configs,
                             [value |-> SiteConfig(r2.heap[r1.ref].val, r2.heap[r2.ref].val),
                              cnRef |-> r1.ref,
                              enRef |-> r2.ref,
                              muts |-> nmut])
    /\ UNCHANGED <<version, nmut>>

\* Array.prototype.pop: removes the last element; no effect on an empty array
Pop(a) == IF Len(a) = 0 THEN a ELSE SubSeq(a, 1, Len(a) - 1)

\* Array.prototype.reverse
Reverse(a) == [i \in 1..Len(a) |-> a[Len(a) + 1 - i]]

\* The holder of a returned array mutates it in place.
MutatePop ==
    /\ nmut < MaxMutations
    /\ \E r \in DOMAIN heap :
        heap' = [heap EXCEPT ![r].val = Pop(@)]
    /\ nmut' = nmut + 1
    /\ UNCHANGED <<version, calls, configs>>

MutateReverse ==
    /\ nmut < MaxMutations
    /\ \E r \in DOMAIN heap :
        heap' = [heap EXCEPT ![r].val = Reverse(@)]
    /\ nmut' = nmut + 1
    /\ UNCHANGED <<version, calls, configs>>

Next ==
    \/ CallCnNav
    \/ CallEnNav
    \/ BuildConfig
    \/ MutatePop
    \/ MutateReverse

Spec == Init /\ [][Next]_vars

(***************************************************************************)
(* Properties                                                              *)
(***************************************************************************)
\* The nav array of locale l in the c-th configuration built
NavOf(c, l) == configs[c].value.locales[l].themeConfig.nav

\* The sidebar object of locale l in the c-th configuration built
SidebarOf(c, l) == configs[c].value.locales[l].themeConfig.sidebar

\* Some array returned by an earlier call of builder fn has been mutated by
\* its holder before a later call of the same builder.
MutatedBetweenCalls(fn) ==
    \E j, k \in DOMAIN calls :
        /\ j < k
        /\ calls[j].fn = fn
        /\ calls[k].fn = fn
        /\ calls[k].muts > calls[j].muts
        /\ heap[calls[j].ref].val # calls[j].value

\* C1: any two constructions of the configuration (the defineConfig
\* argument, with its calls of cn_nav() and en_nav()) yield equal records:
\* every key, every sequence position and every leaf value agree.
C1_Deterministic ==
    \A i, j \in DOMAIN configs : configs[i].value = configs[j].value

\* The configuration was built twice, and between the two constructions the
\* holder of the first configuration mutated its root nav array.
C1_Witness ==
    /\ Len(configs) >= 2
    /\ configs[2].muts > configs[1].muts
    /\ heap[configs[1].cnRef].val # NavOf(1, "root")

SameOrder(a, b) == Len(a) = Len(b) /\ \A p \in DOMAIN a : a[p] = b[p]

\* C2: for each declared locale, the nav sequence its builder returned is
\* non-empty, and every invocation of a builder returns a non-empty
\* sequence whose entries are in the same order as on every other
\* invocation of that builder.
C2_NavNonEmptyOrderStable ==
    /\ \A c \in DOMAIN configs :
        \A l \in DOMAIN configs[c].value.locales : Len(NavOf(c, l)) > 0
    /\ \A j, k \in DOMAIN calls :
        calls[j].fn = calls[k].fn =>
            /\ Len(calls[j].value) > 0
            /\ SameOrder(calls[j].value, calls[k].value)

\* A configuration was built and en_nav() was called again after the holder
\* mutated the en nav array.
C2_Witness ==
    /\ Len(configs) >= 1
    /\ MutatedBetweenCalls("en_nav")

\* C3: every builder result is exactly three entries: the guide entry
\* (activeMatch '/guide/'), the reference entry (activeMatch '/reference/'),
\* then the version dropdown whose text is the module constant `version`
\* and which carries a nested items list.
C3_ThreeEntries ==
    \A k \in DOMAIN calls :
        LET v == calls[k].value IN
        /\ Len(v) = 3
        /\ "activeMatch" \in DOMAIN v[1]
        /\ v[1].activeMatch = "/guide/"
        /\ "activeMatch" \in DOMAIN v[2]
        /\ v[2].activeMatch = "/reference/"
        /\ v[3].text = version
        /\ "items" \in DOMAIN v[3]
        /\ DOMAIN v[3].items = 1..Len(v[3].items)

\* Both builders have been called.
C3_Witness ==
    /\ \E k \in DOMAIN calls : calls[k].fn = "cn_nav"
    /\ \E k \in DOMAIN calls : calls[k].fn = "en_nav"

\* C4: in each locale's sidebar no two entries have the same URL prefix, so
\* the sidebar object has one key per entry of its literal; the keys are
\* '/' and '/guide/' in both locales.
C4_SidebarKeysUnique ==
    \A c \in DOMAIN configs :
        /\ DOMAIN SidebarOf(c, "root") = {"/", "/guide/"}
        /\ Cardinality(DOMAIN SidebarOf(c, "root")) = Len(root_sidebar)
        /\ DOMAIN SidebarOf(c, "en") = {"/", "/guide/"}
        /\ Cardinality(DOMAIN SidebarOf(c, "en")) = Len(en_sidebar)

\* A configuration with both sidebars has been built.
C4_Witness ==
    /\ Len(configs) >= 1
    /\ \A l \in {"root", "en"} : "sidebar" \in DOMAIN configs[1].value.locales[l].themeConfig

\* C5: the en and root locales are structurally parallel: as many nav
\* entries, as many dropdown sub-items, the same sidebar prefixes, and for
\* each prefix as many groups with as many items in each.
C5_Parallel ==
    \A c \in DOMAIN configs :
        LET rn == NavOf(c, "root")
            en == NavOf(c, "en")
            rs == SidebarOf(c, "root")
            es == SidebarOf(c, "en")
        IN
        /\ Len(rn) = Len(en)
        /\ \A p \in DOMAIN rn :
            /\ ("items" \in DOMAIN rn[p]) <=> ("items" \in DOMAIN en[p])
            /\ "items" \in DOMAIN rn[p] => Len(rn[p].items) = Len(en[p].items)
        /\ DOMAIN rs = DOMAIN es
        /\ \A k \in DOMAIN rs :
            /\ Len(rs[k]) = Len(es[k])
            /\ \A g \in DOMAIN rs[k] : Len(rs[k][g].items) = Len(es[k][g].items)

\* A configuration has been built whose two locales have a dropdown with
\* sub-items and a sidebar group with several items.
C5_Witness ==
    \E c \in DOMAIN configs :
        /\ \E p \in DOMAIN NavOf(c, "en") : "items" \in DOMAIN NavOf(c, "en")[p]
        /\ \E k \in DOMAIN SidebarOf(c, "root") : Len(SidebarOf(c, "root")[k][1].items) > 1

\* C6 (as stated): appId, apiKey and indexName of themeConfig.algolia are
\* all the empty string.
C6_AllEmpty ==
    \A c \in DOMAIN configs :
        LET a == configs[c].value.themeConfig.algolia IN
        a.appId = "" /\ a.apiKey = "" /\ a.indexName = ""

\* C6 (amended): appId and apiKey of themeConfig.algolia are the empty
\* string; indexName is 'f2'.
C6_CredentialsEmpty ==
    \A c \in DOMAIN configs :
        LET a == configs[c].value.themeConfig.algolia IN
        a.appId = "" /\ a.apiKey = "" /\ a.indexName = "f2"

\* A configuration with the three algolia fields has been built.
C6_Witness ==
    \E c \in DOMAIN configs :
        DOMAIN configs[c].value.themeConfig.algolia = {"appId", "apiKey", "indexName"}

\* C7 (as stated): every item returned by cn_nav() and en_nav() has a text,
\* a link and an activeMatch.
C7_AllThreeFields ==
    \A k \in DOMAIN calls :
        \A p \in DOMAIN calls[k].value :
            {"text", "link", "activeMatch"} \subseteq DOMAIN calls[k].value[p]

\* C7 (amended): every item returned by cn_nav() and en_nav() has a text;
\* every item other than the version dropdown has exactly text, link and
\* activeMatch; the version dropdown has exactly text and items.
C7_FieldsByKind ==
    \A k \in DOMAIN calls :
        \A p \in DOMAIN calls[k].value :
            LET item == calls[k].value[p] IN
            /\ "text" \in DOMAIN item
            /\ IF item.text = version
               THEN DOMAIN item = {"text", "items"}
               ELSE DOMAIN item = {"text", "link", "activeMatch"}

\* Both builders have returned a sequence that holds a version dropdown
\* and an item that is not one.
C7_Witness ==
    \A fn \in {"cn_nav", "en_nav"} :
        \E k \in DOMAIN calls :
            /\ calls[k].fn = fn
            /\ \E p, q \in DOMAIN calls[k].value :
                calls[k].value[p].text = version /\ calls[k].value[q].text # version

\* C8: the locale keys are pairwise distinct and are exactly root and en;
\* every locale record has exactly label, lang and themeConfig, and its
\* themeConfig holds that locale's nav and sidebar: the root locale the
\* result of cn_nav() and the root sidebar, the en locale the result of
\* en_nav() and the en sidebar; the lang tags are zh and en.
C8_Locales ==
    \A c \in DOMAIN configs :
        LET ls == configs[c].value.locales IN
        /\ DOMAIN ls = {"root", "en"}
        /\ Cardinality(DOMAIN ls) = Len(locales(<< >>, << >>))
        /\ \A l \in DOMAIN ls :
            /\ DOMAIN ls[l] = {"label", "lang", "themeConfig"}
            /\ DOMAIN ls[l].themeConfig = {"nav", "sidebar"}
        /\ ls.root.lang = "zh"
        /\ ls.en.lang = "en"
        /\ ls.root.lang # ls.en.lang
        /\ \A k \in DOMAIN calls :
            /\ calls[k].ref = configs[c].cnRef
                    => (calls[k].fn = "cn_nav" /\ ls.root.themeConfig.nav = calls[k].value)
            /\ calls[k].ref = configs[c].enRef
                    => (calls[k].fn = "en_nav" /\ ls.en.themeConfig.nav = calls[k].value)
        /\ ls.root.themeConfig.sidebar = ObjectOf(root_sidebar)
        /\ ls.en.themeConfig.sidebar = ObjectOf(en_sidebar)

\* A configuration has been built from the results of two builder calls.
C8_Witness ==
    \E c \in DOMAIN configs :
        \E j, k \in DOMAIN calls :
            /\ calls[j].ref = configs[c].cnRef
            /\ calls[k].ref = configs[c].enRef
            /\ j # k

\* C9: a step that calls a builder (alone or while the configuration is
\* built) leaves `version` and every array allocated before it unchanged,
\* returns an array that did not exist before, and returns the value that
\* every earlier call of the same builder returned, whatever the holders
\* of the earlier arrays did to them.
C9_PureAndFresh ==
    [][Len(calls') > Len(calls) =>
        /\ version' = version
        /\ \A i \in DOMAIN heap : heap'[i] = heap[i]
        /\ \A k \in (Len(calls) + 1)..Len(calls') :
            /\ calls'[k].ref \notin DOMAIN heap
            /\ \A j \in 1..(k - 1) :
                calls'[j].fn = calls'[k].fn => calls'[k].value = calls'[j].value
      ]_vars

\* cn_nav() has been called again after the holder of an earlier result
\* mutated it, while an array returned by en_nav() also exists.
C9_Witness ==
    /\ MutatedBetweenCalls("cn_nav")
    /\ \E i \in DOMAIN heap : heap[i].site = "en_nav"

\* The link fields reachable from a nav array: of its items and of the
\* sub-items of its dropdowns
NavLinks(nav) ==
    {nav[p].link : p \in {q \in DOMAIN nav : "link" \in DOMAIN nav[q]}}
    \cup UNION {{nav[p].items[i].link : i \in DOMAIN nav[p].items} :
                    p \in {q \in DOMAIN nav : "items" \in DOMAIN nav[q]}}

\* The link fields reachable from a sidebar object
SidebarLinks(sb) ==
    UNION {UNION {{sb[k][g].items[i].link : i \in DOMAIN sb[k][g].items} :
                    g \in DOMAIN sb[k]} : k \in DOMAIN sb}

LocaleLinks(c, l) == NavLinks(NavOf(c, l)) \cup SidebarLinks(SidebarOf(c, l))

Internal(link) == StartsWith(link, <<"/">>)

\* C10: every site-internal link reachable from the en locale's nav and
\* sidebar starts with '/en/', and no site-internal link reachable from the
\* root locale's nav and sidebar starts with '/en/'.
C10_LocaleSeparation ==
    \A c \in DOMAIN configs :
        /\ \A link \in LocaleLinks(c, "en") :
            Internal(link) => StartsWith(link, <<"/", "en", "/">>)
        /\ \A link \in LocaleLinks(c, "root") :
            Internal(link) => ~StartsWith(link, <<"/", "en", "/">>)

====
